---- MODULE Spec2Model ----
(***************************************************************************)
(* Model of `now scale <url> <dc> [min] [max]`                             *)
(* (src/providers/sh/commands/scale.js, function main).                    *)
(*                                                                         *)
(* main is one asynchronous handler; pc is its position.  Every helper it  *)
(* imports (getArgs, getDCsFromArgs, getMinFromArgs, getMaxFromArgs, the   *)
(* deployment fetches, patchDeploymentScale, waitVerifyDeploymentScale)    *)
(* lives outside scale.js: the pure ones are operators written from the    *)
(* design document, the remote ones are nondeterministic choices over the  *)
(* values main distinguishes.                                              *)
(***************************************************************************)
EXTENDS Integers, Sequences, FiniteSets, TLC

VARIABLES
  argv,               \* parsed command line: positional list and flags
  pc,                 \* position of main
  now,                \* the API client: "none", "open" or "closed"
  dcs,                \* result of getDCsFromArgs
  min,                \* result of getMinFromArgs
  max,                \* result of getMaxFromArgs
  deployment,         \* result of getDeploymentByIdOrHost
  scaleArgs,          \* the ScaleSpec built at line 165
  result,             \* result of patchDeploymentScale
  updatedDeployment,  \* result of getDeploymentByIdOrThrow
  poller,             \* state of waitVerifyDeploymentScale
  verifyResult,       \* result of waitVerifyDeploymentScale
  calls,              \* collaborator operations issued so far, in order
  status,             \* main's return value, NoStatus while running
  outcome             \* what the invocation ended with

vars == <<argv, pc, now, dcs, min, max, deployment, scaleArgs, result,
          updatedDeployment, poller, verifyResult, calls, status, outcome>>

----------------------------------------------------------------------------
(* Bounds of the model *)

MaxTargets == 2       \* identifiers in the <dc> argument
MaxInstances == 1     \* instance count the remote reports per target
MaxOverride == 2      \* largest --verify-timeout value tried

(* Program constants *)

DefaultTimeout == 5   \* "[5m]": the verification timeout when none is passed
PollInterval == 2     \* the fixed wait between two polls, in the same unit
Auto == -1            \* the sentinel bound "auto"
NoStatus == -1        \* main has not returned
NoTimeout == 0        \* --verify-timeout was not given

KnownDCs == {"sfo", "bru"}
DCTokens == KnownDCs \cup {"all", "xyz"}
DeploymentTypes == {"STATIC", "NPM", "DOCKER", "BINARY"}
DeploymentStates == {"READY", "ERROR"}
MinTokens == {"3", "auto", "x"}
MaxTokens == {"0", "1", "auto", "x"}

None == [kind |-> "none"]
Ok(v) == [kind |-> "ok", value |-> v]
Err(k, m) == [kind |-> k, meta |-> m]
IsError(r) == r.kind \notin {"ok", "none"}

----------------------------------------------------------------------------
(* Pure helpers *)

\* Number(token) for the numeric literals used; other tokens are not numbers
NumValue == ("0" :> 0) @@ ("1" :> 1) @@ ("3" :> 3)

IsNumber(tok) == tok \in DOMAIN NumValue

RECURSIVE Dedupe(_)
Dedupe(s) ==
  IF s = <<>> THEN <<>>
  ELSE LET front == Dedupe(SubSeq(s, 1, Len(s) - 1))
           last == s[Len(s)]
       IN IF \E i \in 1..Len(front) : front[i] = last
          THEN front ELSE Append(front, last)

Range(s) == {s[i] : i \in 1..Len(s)}

\* Target Resolver: args[3] is the <dc> argument, already split at commas
getDCsFromArgs(args) ==
  LET ids == args[3]
      bad == {i \in 1..Len(ids) : ids[i] \notin KnownDCs \cup {"all"}}
  IN IF "all" \in Range(ids) /\ Len(ids) > 1
       THEN Err("InvalidAllForScale", <<>>)
     ELSE IF bad # {}
       THEN Err("InvalidRegionOrDCForScale",
                ids[CHOOSE i \in bad : \A j \in bad : i <= j])
     ELSE Ok(Dedupe(ids))

\* Bound Parser, min: args[4]
getMinFromArgs(args) ==
  IF Len(args) < 4 THEN Ok(0)
  ELSE IF args[4] = "auto" THEN Ok(Auto)
  ELSE IF IsNumber(args[4]) THEN Ok(NumValue[args[4]])
  ELSE Err("InvalidMinForScale", args[4])

\* an absent max taken from min, whatever min is
getMaxFromArgsSameAsMin(args) ==
  LET m == getMinFromArgs(args)
  IN IF IsError(m) THEN m
     ELSE IF Len(args) < 5 THEN Ok(m.value)
     ELSE IF args[5] = "auto" THEN Ok(Auto)
     ELSE IF IsNumber(args[5]) /\ NumValue[args[5]] > 0
       THEN Ok(NumValue[args[5]])
     ELSE Err("InvalidMaxForScale", args[5])

\* Bound Parser, max: args[5]
getMaxFromArgs(args) ==
  LET m == getMinFromArgs(args)
  IN IF IsError(m) THEN m
     ELSE IF Len(args) < 5
       THEN IF m.value = Auto
              THEN Err("InvalidArgsForMinMaxScale", m.value)
              ELSE Ok(1)
     ELSE IF args[5] = "auto" THEN Ok(Auto)
     ELSE IF IsNumber(args[5]) /\ NumValue[args[5]] > 0
       THEN Ok(NumValue[args[5]])
     ELSE Err("InvalidMaxForScale", args[5])

\* the fold without its seed {}: the first target becomes the accumulator
BuildScaleArgsNoSeed(targets, lo, hi) ==
  [dc \in Range(Tail(targets)) |-> [min |-> lo, max |-> hi]]

\* { min, max: min } written for { min, max }
BuildScaleArgsMinTwice(targets, lo, hi) ==
  [dc \in Range(targets) |-> [min |-> lo, max |-> lo]]

\* Scale Spec Builder: dcs.reduce((r, dc) => ({...r, [dc]: {min, max}}), {})
BuildScaleArgs(targets, lo, hi) ==
  [dc \in Range(targets) |-> [min |-> lo, max |-> hi]]

\* one target's reported instance count against its requested range
InRange(count, range) ==
  /\ range.min = Auto \/ count >= range.min
  /\ range.max = Auto \/ count <= range.max

\* Convergence: every target of the spec is reported within its range
Satisfies(snapshot, spec) ==
  \A dc \in DOMAIN spec : InRange(snapshot[dc], spec[dc])

----------------------------------------------------------------------------
(* Inputs *)

DCArgs == UNION {[1..n -> DCTokens] : n \in 1..MaxTargets}

FullArgs ==
  {<<"scale", id, dc, lo, hi, "extra">> :
      id \in {"dep", "ls"}, dc \in DCArgs, lo \in MinTokens, hi \in MaxTokens}

Positionals == {SubSeq(a, 1, n) : a \in FullArgs, n \in 1..6}

TimeoutOverrides == 1..MaxOverride

Argvs ==
  [pos : Positionals,
   flag : {"ok", "help", "throw"},
   noVerify : BOOLEAN,
   verifyTimeout : {NoTimeout} \cup TimeoutOverrides]

NoPoller == [spec |-> <<>>, timeout |-> 0, elapsed |-> 0, sleeps |-> 0,
             fetches |-> 0, snapshot |-> <<>>]

Init ==
  /\ argv \in Argvs
  /\ pc = "getArgs"
  /\ now = "none"
  /\ dcs = None /\ min = None /\ max = None
  /\ deployment = None /\ scaleArgs = <<>> /\ result = None
  /\ updatedDeployment = None
  /\ poller = NoPoller
  /\ verifyResult = None
  /\ calls = <<>>
  /\ status = NoStatus
  /\ outcome = "running"

----------------------------------------------------------------------------
(* What the remote system may answer *)

\* getDeploymentByIdOrHost: a typed lookup error or the Deployment record
FetchResponses ==
  {Err("DeploymentPermissionDenied", <<>>), Err("DeploymentNotFound", <<>>)}
    \cup {Ok(d) : d \in [type : DeploymentTypes, state : DeploymentStates]}

\* patchDeploymentScale: the accepted spec, a typed rejection, or a thrown
\* transport failure
PatchResponses(spec) ==
  {Ok(spec), Err("ForbiddenScaleMinInstances", <<>>),
   Err("ForbiddenScaleMaxInstances", <<>>),
   Err("InvalidScaleMinMaxRelation", <<>>),
   Err("NotSupportedMinScaleSlots", <<>>), Err("throw", <<>>)}

\* the scale presets the remote reports after the update: the submitted spec
\* as it is, or the remote's own normalisation of it onto datacenters
ReportedScales(spec) ==
  {spec} \cup
  {[dc \in KnownDCs |-> r] : r \in {spec[t] : t \in DOMAIN spec}
                                    \cup {[min |-> 1, max |-> 1]}}

\* getDeploymentByIdOrThrow: the Deployment record, or a throw
RefetchResponses(spec) ==
  {Err("throw", <<>>)}
    \cup {Ok(d) : d \in [type : DeploymentTypes, scale : ReportedScales(spec)]}

\* the instance counts one poll may read for the targets of spec
Snapshots(spec) == [DOMAIN spec -> 0..MaxInstances]

----------------------------------------------------------------------------
(* main *)

\* now.close(); return code
Return(code, kind, log) ==
  /\ pc' = "done"
  /\ status' = code
  /\ outcome' = kind
  /\ now' = "closed"
  /\ calls' = Append(log, "close")

\* an exception leaves main: the returned promise rejects, nothing is closed
Throw(log) ==
  /\ pc' = "done"
  /\ outcome' = "thrown"
  /\ calls' = log
  /\ UNCHANGED <<status, now>>

Goto(label) ==
  /\ pc' = label
  /\ UNCHANGED <<status, outcome, now, calls>>

\* lines 64-89: parse the flags, print help, create the API client
GetArgs ==
  /\ pc = "getArgs"
  /\ IF argv.flag = "throw"
       THEN /\ pc' = "done" /\ status' = 1 /\ outcome' = "ArgsError"
            /\ UNCHANGED <<now, calls>>
     ELSE IF argv.flag = "help"
       THEN /\ pc' = "done" /\ status' = 2 /\ outcome' = "help"
            /\ UNCHANGED <<now, calls>>
     ELSE /\ pc' = "deprecated" /\ now' = "open"
          /\ UNCHANGED <<status, outcome, calls>>
  /\ UNCHANGED <<argv, dcs, min, max, deployment, scaleArgs, result,
                 updatedDeployment, poller, verifyResult>>

\* lines 91-96: argv._[1] === 'ls'
CheckDeprecated ==
  /\ pc = "deprecated"
  /\ IF Len(argv.pos) >= 2 /\ argv.pos[2] = "ls"
       THEN Return(1, "DeprecatedLs", calls)
       ELSE Goto("arity")
  /\ UNCHANGED <<argv, dcs, min, max, deployment, scaleArgs, result,
                 updatedDeployment, poller, verifyResult>>

\* the upper limit off by one
CheckArityUpToSix ==
  /\ pc = "arity"
  /\ IF Len(argv.pos) < 3 \/ Len(argv.pos) > 6
       THEN Return(1, "InvalidArity", calls)
       ELSE Goto("dcs")
  /\ UNCHANGED <<argv, dcs, min, max, deployment, scaleArgs, result,
                 updatedDeployment, poller, verifyResult>>

\* lines 98-104: between 3 and 5 positional arguments
CheckArity ==
  /\ pc = "arity"
  /\ IF Len(argv.pos) < 3 \/ Len(argv.pos) > 5
       THEN Return(1, "InvalidArity", calls)
       ELSE Goto("dcs")
  /\ UNCHANGED <<argv, dcs, min, max, deployment, scaleArgs, result,
                 updatedDeployment, poller, verifyResult>>

\* lines 106-115
ResolveTargets ==
  /\ pc = "dcs"
  /\ dcs' = getDCsFromArgs(argv.pos)
  /\ IF dcs'.kind \in {"InvalidAllForScale", "InvalidRegionOrDCForScale"}
       THEN Return(1, dcs'.kind, calls)
       ELSE Goto("min")
  /\ UNCHANGED <<argv, min, max, deployment, scaleArgs, result,
                 updatedDeployment, poller, verifyResult>>

\* lines 117-122
ParseMin ==
  /\ pc = "min"
  /\ min' = getMinFromArgs(argv.pos)
  /\ IF min'.kind = "InvalidMinForScale"
       THEN Return(1, min'.kind, calls)
       ELSE Goto("max")
  /\ UNCHANGED <<argv, dcs, max, deployment, scaleArgs, result,
                 updatedDeployment, poller, verifyResult>>

\* the deployment fetch issued before the bounds are validated
ParseMaxFetchFirst ==
  /\ pc = "max"
  /\ max' = getMaxFromArgs(argv.pos)
  /\ IF max'.kind \in {"InvalidMinForScale", "InvalidArgsForMinMaxScale",
                       "InvalidMaxForScale"}
       THEN Return(1, max'.kind, Append(calls, "fetch"))
       ELSE Goto("fetch")
  /\ UNCHANGED <<argv, dcs, min, deployment, scaleArgs, result,
                 updatedDeployment, poller, verifyResult>>

\* a local min <= max check added after the parse
ParseMaxLocalRelation ==
  /\ pc = "max"
  /\ max' = getMaxFromArgs(argv.pos)
  /\ IF max'.kind \in {"InvalidMinForScale", "InvalidArgsForMinMaxScale",
                       "InvalidMaxForScale"}
       THEN Return(1, max'.kind, calls)
     ELSE IF min.value # Auto /\ max'.value # Auto /\ min.value > max'.value
       THEN Return(1, "InvalidScaleMinMaxRelation", calls)
     ELSE Goto("fetch")
  /\ UNCHANGED <<argv, dcs, min, deployment, scaleArgs, result,
                 updatedDeployment, poller, verifyResult>>

\* lines 124-137
ParseMax ==
  /\ pc = "max"
  /\ max' = getMaxFromArgs(argv.pos)
  /\ IF max'.kind \in {"InvalidMinForScale", "InvalidArgsForMinMaxScale",
                       "InvalidMaxForScale"}
       THEN Return(1, max'.kind, calls)
       ELSE Goto("fetch")
  /\ UNCHANGED <<argv, dcs, min, deployment, scaleArgs, result,
                 updatedDeployment, poller, verifyResult>>

\* lines 139-150: fetch the deployment
FetchDeployment ==
  /\ pc = "fetch"
  /\ \E resp \in FetchResponses :
       /\ deployment' = resp
       /\ IF resp.kind \in {"DeploymentPermissionDenied", "DeploymentNotFound"}
            THEN Return(1, resp.kind, Append(calls, "fetch"))
            ELSE /\ pc' = "scalable"
                 /\ calls' = Append(calls, "fetch")
                 /\ UNCHANGED <<status, outcome, now>>
  /\ UNCHANGED <<argv, dcs, min, max, scaleArgs, result,
                 updatedDeployment, poller, verifyResult>>

\* the ERROR-state check left out
CheckScalableNoErrorState ==
  /\ pc = "scalable"
  /\ IF deployment.value.type = "STATIC"
       THEN Return(1, "StaticDeployment", calls)
       ELSE Goto("patch")
  /\ UNCHANGED <<argv, dcs, min, max, deployment, scaleArgs, result,
                 updatedDeployment, poller, verifyResult>>

\* the STATIC check left out
CheckScalableNoStatic ==
  /\ pc = "scalable"
  /\ IF deployment.value.state = "ERROR"
       THEN Return(1, "ErrorStateDeployment", calls)
       ELSE Goto("patch")
  /\ UNCHANGED <<argv, dcs, min, max, deployment, scaleArgs, result,
                 updatedDeployment, poller, verifyResult>>

\* lines 154-163: make sure the deployment can be scaled
CheckScalable ==
  /\ pc = "scalable"
  /\ IF deployment.value.type = "STATIC"
       THEN Return(1, "StaticDeployment", calls)
     ELSE IF deployment.value.state = "ERROR"
       THEN Return(1, "ErrorStateDeployment", calls)
     ELSE Goto("patch")
  /\ UNCHANGED <<argv, dcs, min, max, deployment, scaleArgs, result,
                 updatedDeployment, poller, verifyResult>>

\* the NotSupportedMinScaleSlots branch left out: that rejection is taken
\* for an accepted update
SetScaleNoSlotsBranch ==
  /\ pc = "patch"
  /\ scaleArgs' = BuildScaleArgs(dcs.value, min.value, max.value)
  /\ \E resp \in PatchResponses(scaleArgs') :
       /\ result' = resp
       /\ IF resp.kind = "throw"
            THEN Throw(Append(calls, "patch"))
          ELSE IF resp.kind \notin {"ok", "NotSupportedMinScaleSlots"}
            THEN Return(1, resp.kind, Append(calls, "patch"))
          ELSE /\ pc' = "noVerify"
               /\ calls' = Append(calls, "patch")
               /\ UNCHANGED <<status, outcome, now>>
  /\ UNCHANGED <<argv, dcs, min, max, deployment,
                 updatedDeployment, poller, verifyResult>>

\* lines 165-188: build the ScaleSpec and set the deployment scale
SetScale ==
  /\ pc = "patch"
  /\ scaleArgs' = BuildScaleArgs(dcs.value, min.value, max.value)
  /\ \E resp \in PatchResponses(scaleArgs') :
       /\ result' = resp
       /\ IF resp.kind = "throw"
            THEN Throw(Append(calls, "patch"))
          ELSE IF resp.kind # "ok"
            THEN Return(1, resp.kind, Append(calls, "patch"))
          ELSE /\ pc' = "noVerify"
               /\ calls' = Append(calls, "patch")
               /\ UNCHANGED <<status, outcome, now>>
  /\ UNCHANGED <<argv, dcs, min, max, deployment,
                 updatedDeployment, poller, verifyResult>>

\* --no-verify not honoured
CheckNoVerifyIgnored ==
  /\ pc = "noVerify"
  /\ Goto("refetch")
  /\ UNCHANGED <<argv, dcs, min, max, deployment, scaleArgs, result,
                 updatedDeployment, poller, verifyResult>>

\* return 0 without now.close()
CheckNoVerifyNoClose ==
  /\ pc = "noVerify"
  /\ IF argv.noVerify
       THEN /\ pc' = "done" /\ status' = 0 /\ outcome' = "success"
            /\ UNCHANGED <<now, calls>>
       ELSE Goto("refetch")
  /\ UNCHANGED <<argv, dcs, min, max, deployment, scaleArgs, result,
                 updatedDeployment, poller, verifyResult>>

\* the re-fetch moved above the --no-verify return
CheckNoVerifyAfterRefetch ==
  /\ pc = "noVerify"
  /\ IF argv.noVerify
       THEN Return(0, "success", Append(calls, "refetch"))
       ELSE Goto("refetch")
  /\ UNCHANGED <<argv, dcs, min, max, deployment, scaleArgs, result,
                 updatedDeployment, poller, verifyResult>>

\* lines 194-197
CheckNoVerify ==
  /\ pc = "noVerify"
  /\ IF argv.noVerify
       THEN Return(0, "success", calls)
       ELSE Goto("refetch")
  /\ UNCHANGED <<argv, dcs, min, max, deployment, scaleArgs, result,
                 updatedDeployment, poller, verifyResult>>

\* the submitted spec handed to the poller instead of the re-fetched one
PollerArgsSubmitted(updated) ==
  [spec |-> scaleArgs, timeout |-> DefaultTimeout]

\* line 203: what main hands to waitVerifyDeploymentScale: the re-fetched
\* deployment's scale and no timeout, so the poller's default applies
PollerArgs(updated) ==
  [spec |-> updated.scale, timeout |-> DefaultTimeout]

\* every type but STATIC verified
NeedsVerifyNotStatic(updated) == updated.type # "STATIC"

\* line 202
NeedsVerify(updated) == updated.type = "NPM" \/ updated.type = "DOCKER"

\* lines 199-203: re-fetch the deployment and enter the poller
RefetchDeployment ==
  /\ pc = "refetch"
  /\ \E resp \in RefetchResponses(scaleArgs) :
       IF resp.kind = "throw"
         THEN /\ Throw(Append(calls, "refetch"))
              /\ UNCHANGED <<updatedDeployment, poller>>
       ELSE /\ updatedDeployment' = resp
            /\ calls' = Append(calls, "refetch")
            /\ UNCHANGED <<status, outcome, now>>
            /\ IF NeedsVerify(resp.value)
                 THEN /\ pc' = "pollFetch"
                      /\ poller' = [NoPoller EXCEPT
                            !.spec = PollerArgs(resp.value).spec,
                            !.timeout = PollerArgs(resp.value).timeout]
                 ELSE /\ pc' = "finish"
                      /\ UNCHANGED poller
  /\ UNCHANGED <<argv, dcs, min, max, deployment, scaleArgs, result,
                 verifyResult>>

\* waitVerifyDeploymentScale, one iteration: read the deployment's instance
\* counts and compare them with the spec
PollFetch ==
  /\ pc = "pollFetch"
  /\ \E snap \in Snapshots(poller.spec) :
       /\ poller' = [poller EXCEPT !.fetches = @ + 1, !.snapshot = snap]
       /\ IF Satisfies(snap, poller.spec)
            THEN /\ verifyResult' = Ok("converged")
                 /\ pc' = "verified"
            ELSE /\ pc' = "pollSleep"
                 /\ UNCHANGED verifyResult
  /\ calls' = Append(calls, "pollfetch")
  /\ UNCHANGED <<argv, now, dcs, min, max, deployment, scaleArgs, result,
                 updatedDeployment, status, outcome>>

\* waitVerifyDeploymentScale: wait the fixed interval, give up past the
\* timeout
PollSleep ==
  /\ pc = "pollSleep"
  /\ poller' = [poller EXCEPT !.elapsed = @ + PollInterval, !.sleeps = @ + 1]
  /\ IF poller'.elapsed > poller.timeout
       THEN /\ verifyResult' = Err("VerifyScaleTimeout", poller.timeout)
            /\ pc' = "verified"
       ELSE /\ pc' = "pollFetch"
            /\ UNCHANGED verifyResult
  /\ UNCHANGED <<argv, now, dcs, min, max, deployment, scaleArgs, result,
                 updatedDeployment, calls, status, outcome>>

\* a timed-out verification started over instead of reported
HandleVerifyRetry ==
  /\ pc = "verified"
  /\ IF verifyResult.kind = "VerifyScaleTimeout"
       THEN /\ Goto("pollFetch")
       ELSE Goto("finish")
  /\ UNCHANGED <<argv, dcs, min, max, deployment, scaleArgs, result,
                 updatedDeployment, poller, verifyResult>>

\* any poller result taken for a timeout: if (result) instead of instanceof
HandleVerifyAnyResult ==
  /\ pc = "verified"
  /\ Return(1, "VerifyScaleTimeout", calls)
  /\ UNCHANGED <<argv, dcs, min, max, deployment, scaleArgs, result,
                 updatedDeployment, poller, verifyResult>>

\* the return after the timeout message left out
HandleVerifyNoReturn ==
  /\ pc = "verified"
  /\ Goto("finish")
  /\ UNCHANGED <<argv, dcs, min, max, deployment, scaleArgs, result,
                 updatedDeployment, poller, verifyResult>>

\* lines 204-210
HandleVerify ==
  /\ pc = "verified"
  /\ IF verifyResult.kind = "VerifyScaleTimeout"
       THEN Return(1, "VerifyScaleTimeout", calls)
       ELSE Goto("finish")
  /\ UNCHANGED <<argv, dcs, min, max, deployment, scaleArgs, result,
                 updatedDeployment, poller, verifyResult>>

\* lines 212-213
Finish ==
  /\ pc = "finish"
  /\ Return(0, "success", calls)
  /\ UNCHANGED <<argv, dcs, min, max, deployment, scaleArgs, result,
                 updatedDeployment, poller, verifyResult>>

Next ==
  \/ GetArgs \/ CheckDeprecated \/ CheckArity
  \/ ResolveTargets \/ ParseMin \/ ParseMax
  \/ FetchDeployment \/ CheckScalable \/ SetScale
  \/ CheckNoVerify \/ RefetchDeployment
  \/ PollFetch \/ PollSleep \/ HandleVerify \/ Finish

Spec == Init /\ [][Next]_vars

\* main runs to completion: every step of it is eventually taken
FairSpec == Spec /\ WF_vars(Next)

----------------------------------------------------------------------------
(* Properties *)

Count(log, op) == Cardinality({i \in 1..Len(log) : log[i] = op})

\* the network calls issued so far: everything but the close of the client
NetCalls == SelectSeq(calls, LAMBDA c : c # "close")

Issued(op) == op \in Range(calls)

InputShapeErrors ==
  {"InvalidAllForScale", "InvalidRegionOrDCForScale", "InvalidMinForScale",
   "InvalidMaxForScale", "InvalidArgsForMinMaxScale"}

PollerInvoked ==
  pc \in {"pollFetch", "pollSleep"} \/ poller.fetches > 0

Unscalable ==
  \/ deployment.kind \in {"DeploymentPermissionDenied", "DeploymentNotFound"}
  \/ /\ deployment.kind = "ok"
     /\ \/ deployment.value.type = "STATIC"
        \/ deployment.value.state = "ERROR"

\* C1: the scale update is issued at most once, only after the targets, min
\* and max have all been resolved without error, and the ScaleSpec it
\* submits has an entry for every resolved target.
C1_SingleCompleteSubmission ==
  /\ Count(calls, "patch") <= 1
  /\ Issued("patch") =>
       /\ dcs.kind = "ok" /\ min.kind = "ok" /\ max.kind = "ok"
       /\ DOMAIN scaleArgs = Range(dcs.value)

C1_Witness ==
  /\ Issued("patch")
  /\ Len(dcs.value) = 2

\* C2: an invocation that ends with an input-shape error has made no network
\* call (deployment fetch, scale update, re-fetch, poll) before.
C2_ShapeErrorsBeforeNetwork ==
  outcome \in InputShapeErrors => NetCalls = <<>>

C2_Witness ==
  /\ pc = "done"
  /\ outcome = "InvalidArgsForMinMaxScale"

\* C3: a deployment that is STATIC, in the ERROR state, not found or not
\* permitted never reaches the scale update, and the invocation fails.
C3_UnscalableNeverPatched ==
  Unscalable =>
    /\ ~Issued("patch")
    /\ pc # "patch"
    /\ pc = "done" => status = 1

C3_Witness ==
  /\ pc = "done"
  /\ deployment.kind = "ok"
  /\ deployment.value.type = "NPM"
  /\ deployment.value.state = "ERROR"

StaticScenario ==
  /\ argv.flag = "ok"
  /\ argv.pos = <<"scale", "dep", <<"all">>, "auto", "auto">>
  /\ deployment.kind = "ok"
  /\ deployment.value.type = "STATIC"

\* C4 as stated: target all, min auto, max auto on a STATIC deployment is
\* rejected before any network call, the deployment fetch included.
C4_RejectedBeforeAnyCall ==
  (StaticScenario /\ pc = "done") => NetCalls = <<>>

\* C4 amended: that request is rejected after exactly one network call, the
\* deployment fetch that reports the type, and before any scale update.
C4_RejectedAfterFetchOnly ==
  StaticScenario =>
    /\ NetCalls = <<"fetch">>
    /\ pc \in {"scalable", "done"}
    /\ pc = "done" => status = 1 /\ outcome = "StaticDeployment"

C4_Witness ==
  /\ StaticScenario
  /\ pc = "done"

\* C5: the poller is invoked only if the scale update was accepted,
\* --no-verify is not set and the re-fetched deployment is NPM or DOCKER.
C5_PollerOnlyWhenVerifiable ==
  (PollerInvoked \/ Issued("pollfetch")) =>
    /\ result.kind = "ok"
    /\ ~argv.noVerify
    /\ updatedDeployment.kind = "ok"
    /\ updatedDeployment.value.type \in {"NPM", "DOCKER"}

C5_Witness ==
  /\ poller.fetches > 0
  /\ updatedDeployment.value.type = "DOCKER"

C7_TimeoutCarriesOverride ==
  (verifyResult.kind = "VerifyScaleTimeout" /\ argv.verifyTimeout # NoTimeout)
    => verifyResult.meta = argv.verifyTimeout

\* C8: the poll loop terminates; when it ends without a satisfying snapshot
\* it ends with VerifyScaleTimeout, past the timeout, and no deployment fetch
\* is issued afterwards.
C8_PollTerminates ==
  /\ PollerInvoked ~> (verifyResult.kind \in {"ok", "VerifyScaleTimeout"})
  /\ [](verifyResult.kind = "ok" => Satisfies(poller.snapshot, poller.spec))
  /\ [](verifyResult.kind = "VerifyScaleTimeout" =>
          /\ poller.elapsed > poller.timeout
          /\ verifyResult.meta = poller.timeout
          /\ ~Satisfies(poller.snapshot, poller.spec))
  /\ [][verifyResult.kind = "VerifyScaleTimeout" =>
          calls' \in {calls, Append(calls, "close")}]_vars
  /\ (verifyResult.kind = "VerifyScaleTimeout") ~> (pc = "done")

C8_Witness ==
  /\ pc = "done"
  /\ verifyResult.kind = "VerifyScaleTimeout"
  /\ poller.fetches > 1

FirstPollMatches ==
  /\ poller.fetches = 1
  /\ Satisfies(poller.snapshot, poller.spec)

SfoScenario ==
  /\ argv.flag = "ok"
  /\ argv.pos = <<"scale", "dep", <<"sfo">>>>
  /\ deployment.kind = "ok" /\ deployment.value.type = "NPM"
  /\ result.kind = "ok"
  /\ updatedDeployment.kind = "ok" /\ updatedDeployment.value.type = "NPM"
  /\ FirstPollMatches

\* C9: a snapshot that satisfies the spec on the first fetch makes the poller
\* return converged after one fetch and no sleep; target sfo with min and max
\* omitted on an NPM deployment then gives bounds (0,1) and success, with one
\* scale update and one poll.
C9_FirstFetchConverges ==
  /\ FirstPollMatches =>
       /\ verifyResult = Ok("converged")
       /\ poller.sleeps = 0
       /\ pc \in {"verified", "finish", "done"}
  /\ SfoScenario =>
       /\ min.value = 0 /\ max.value = 1
       /\ scaleArgs = [dc \in {"sfo"} |-> [min |-> 0, max |-> 1]]
       /\ pc = "done" =>
            /\ status = 0 /\ outcome = "success"
            /\ calls = <<"fetch", "patch", "refetch", "pollfetch", "close">>

C9_Witness ==
  /\ SfoScenario
  /\ pc = "done"

\* C10: update accepted, verification not skipped, re-fetched type neither NPM
\* nor DOCKER: no poll is performed and the invocation succeeds.
C10_OtherTypesSkipPoll ==
  ( /\ result.kind = "ok"
    /\ ~argv.noVerify
    /\ updatedDeployment.kind = "ok"
    /\ updatedDeployment.value.type \notin {"NPM", "DOCKER"} ) =>
    /\ ~PollerInvoked
    /\ ~Issued("pollfetch")
    /\ verifyResult = None
    /\ pc \in {"finish", "done"}
    /\ pc = "done" => status = 0 /\ outcome = "success"

C10_Witness ==
  /\ pc = "done"
  /\ result.kind = "ok"
  /\ ~argv.noVerify
  /\ updatedDeployment.kind = "ok"
  /\ updatedDeployment.value.type = "BINARY"

RemoteRejections ==
  {"ForbiddenScaleMinInstances", "ForbiddenScaleMaxInstances",
   "InvalidScaleMinMaxRelation", "NotSupportedMinScaleSlots"}

\* the re-fetch was issued and gave no deployment back
RefetchFailed ==
  /\ Issued("refetch")
  /\ updatedDeployment = None

\* C11: every invocation ends by returning a result, success or one error
\* kind, never by an uncaught fault; a failed re-fetch after the accepted
\* update is returned as a typed error.  (A transport failure of the update
\* itself is set aside: the design lets it propagate.)
C11_NeverUncaughtFault ==
  (pc = "done" /\ result.kind # "throw") =>
    /\ outcome # "thrown"
    /\ status \in {0, 1, 2}
    /\ RefetchFailed => now = "closed"

\* C12: a remote rejection of the update ends the invocation in failure with
\* that error kind; the update is not retried and neither the re-fetch nor
\* the poller runs.
C12_RejectionEndsInvocation ==
  result.kind \in RemoteRejections =>
    /\ pc = "done"
    /\ status = 1
    /\ outcome = result.kind
    /\ NetCalls = <<"fetch", "patch">>
    /\ updatedDeployment = None
    /\ ~PollerInvoked

C12_Witness ==
  /\ pc = "done"
  /\ result.kind = "NotSupportedMinScaleSlots"
  /\ ~argv.noVerify

\* C13: the built ScaleSpec has exactly the resolved targets as keys and
\* maps each of them to the one resolved {min, max}.
C13_SpecIsTargetsTimesBounds ==
  Issued("patch") =>
    /\ DOMAIN scaleArgs = Range(getDCsFromArgs(argv.pos).value)
    /\ Cardinality(DOMAIN scaleArgs) = Len(dcs.value)
    /\ \A dc \in DOMAIN scaleArgs :
         scaleArgs[dc] = [min |-> min.value, max |-> max.value]

C13_Witness ==
  /\ Issued("patch")
  /\ scaleArgs = [dc \in {"sfo", "bru"} |-> [min |-> 0, max |-> 1]]

\* the bound parsers have both run
BoundsParsed == max.kind # "none"

InvertedScenario ==
  /\ argv.flag = "ok"
  /\ Len(argv.pos) = 5
  /\ argv.pos[2] = "dep"
  /\ getDCsFromArgs(argv.pos).kind = "ok"
  /\ argv.pos[4] = "3" /\ argv.pos[5] = "1"

\* C15: min 3 with max 1 passes every local check and reaches the scale
\* update with those bounds unchanged; the inverted relation makes it fail
\* only when the remote rejects the update, with InvalidScaleMinMaxRelation,
\* and the same remote answer always gives the same result.
C15_RelationCheckedRemotely ==
  InvertedScenario =>
    /\ outcome \notin InputShapeErrors \cup {"DeprecatedLs", "InvalidArity"}
    /\ BoundsParsed => min = Ok(3) /\ max = Ok(1)
    /\ Issued("patch") =>
         \A dc \in DOMAIN scaleArgs : scaleArgs[dc] = [min |-> 3, max |-> 1]
    /\ (outcome = "InvalidScaleMinMaxRelation")
         <=> (result.kind = "InvalidScaleMinMaxRelation")
    /\ result.kind = "InvalidScaleMinMaxRelation" =>
         /\ pc = "done" /\ status = 1
         /\ calls = <<"fetch", "patch", "close">>
    /\ (pc = "done" /\ result.kind = "ok" /\ argv.noVerify) =>
         /\ status = 0 /\ outcome = "success"
         /\ calls = <<"fetch", "patch", "close">>

C15_Witness ==
  /\ InvertedScenario
  /\ pc = "done"
  /\ result.kind = "InvalidScaleMinMaxRelation"
  /\ DOMAIN scaleArgs = {"sfo", "bru"}

\* the invocation has ended with the scale update accepted
AcceptedAndDone ==
  /\ pc = "done"
  /\ result.kind = "ok"

Prefix(log, n) == SubSeq(log, 1, IF n < Len(log) THEN n ELSE Len(log))

\* C16 as stated: whenever the update was accepted the deployment is fetched
\* before it and again after it, also when verification is skipped.
C16_FetchApplyFetchAlways ==
  AcceptedAndDone => Prefix(NetCalls, 3) = <<"fetch", "patch", "refetch">>

\* C16 amended: with the update accepted the calls are fetch, update,
\* re-fetch in that order, each once, unless --no-verify is set: then the
\* deployment is read once, before the update, and not again.
C16_FetchApplyFetchUnlessSkipped ==
  AcceptedAndDone =>
    /\ Count(calls, "fetch") = 1 /\ Count(calls, "patch") = 1
    /\ IF argv.noVerify
         THEN NetCalls = <<"fetch", "patch">>
         ELSE /\ Prefix(NetCalls, 3) = <<"fetch", "patch", "refetch">>
              /\ Count(calls, "refetch") = 1

C16_Witness ==
  /\ AcceptedAndDone
  /\ argv.noVerify

FailureKinds ==
  InputShapeErrors \cup RemoteRejections \cup
  {"DeploymentPermissionDenied", "DeploymentNotFound", "StaticDeployment",
   "ErrorStateDeployment", "VerifyScaleTimeout", "DeprecatedLs",
   "InvalidArity", "ArgsError"}

\* C17: main returns 0 only if the update was accepted and verification was
\* skipped, or not applicable to the re-fetched type, or converged; every
\* validation, lookup, precondition, rejection and timeout outcome returns
\* a non-zero status.
C17_ZeroOnlyOnSuccess ==
  /\ status = 0 =>
       /\ result.kind = "ok"
       /\ \/ argv.noVerify
          \/ /\ updatedDeployment.kind = "ok"
             /\ updatedDeployment.value.type \notin {"NPM", "DOCKER"}
          \/ verifyResult = Ok("converged")
  /\ ( \/ outcome \in FailureKinds
       \/ IsError(dcs) \/ IsError(min) \/ IsError(max)
       \/ IsError(deployment) \/ Unscalable
       \/ result.kind \in RemoteRejections
       \/ verifyResult.kind = "VerifyScaleTimeout" ) => status # 0
  /\ (pc = "done" /\ outcome \in FailureKinds) => status = 1

C17_Witness ==
  /\ pc = "done"
  /\ status = 1
  /\ verifyResult.kind = "VerifyScaleTimeout"

\* C18: on every path on which main returns with the client created, the
\* client is closed exactly once, as the last collaborator operation; no
\* fetch, update or poll follows a close.
C18_ClosedOnceAtTheEnd ==
  /\ Count(calls, "close") <= 1
  /\ Issued("close") => calls[Len(calls)] = "close" /\ pc = "done"
  /\ (now = "closed") <=> Issued("close")
  /\ (pc = "done" /\ status # NoStatus /\ outcome \notin {"ArgsError", "help"})
       => now = "closed"
  /\ outcome \in {"ArgsError", "help"} => now = "none"

C18_Witness ==
  /\ pc = "done"
  /\ status = 0
  /\ argv.noVerify
  /\ calls = <<"fetch", "patch", "close">>

BadPositionals ==
  /\ argv.flag = "ok"
  /\ \/ Len(argv.pos) < 3
     \/ Len(argv.pos) > 5
     \/ argv.pos[2] = "ls"

\* C19: fewer than 3 or more than 5 positional arguments, or the deprecated
\* ls as second entry: main returns failure without running the target
\* resolver or the bound parser and without any network call.
C19_BadPositionalsFailEarly ==
  BadPositionals =>
    /\ dcs = None /\ min = None /\ max = None
    /\ NetCalls = <<>>
    /\ pc \in {"getArgs", "deprecated", "arity", "done"}
    /\ pc = "done" =>
         /\ status = 1
         /\ outcome \in {"DeprecatedLs", "InvalidArity"}
         /\ calls = <<"close">>

C19_Witness ==
  /\ pc = "done"
  /\ argv.flag = "ok"
  /\ Len(argv.pos) = 6
  /\ argv.pos[2] = "dep"

====
